---- MODULE Spec2Model ----
(***************************************************************************)
(* ceiling: a per-key token-bucket rate limiter.                           *)
(*                                                                         *)
(* The model follows one generated rate limiter with two rules, each with  *)
(* its own DefaultStore (ceiling/src/store.rs), hit concurrently by        *)
(* several callers.  `hit` is the code generated by impl_rate_limiter /    *)
(* impl_rule (ceiling-macros/src/lib.rs): capture now, and then, rule      *)
(* after rule in declared order: build the key, get the key's lock, apply  *)
(* the token transition, set, drop the lock, prune.                        *)
(*                                                                         *)
(* A step of the model is one blocking point of the code or one iteration  *)
(* of prune's loop; everything a caller does between two blocking points   *)
(* touches only its locals and is folded into one step.                    *)
(***************************************************************************)
EXTENDS Integers, Sequences, FiniteSets, Bags, TLC

\* ---- bounds of the model -------------------------------------------------
NumCallers == 3
MaxNow == 2
MaxHits == 1
MaxLimit == 2
MaxInterval == 1
MaxTimeout == 1
NumRules == 2

Callers == 1..NumCallers

\* The rules in declared order, as in
\*   main = L1 requests every I1 seconds for { ip + route } timeout T1 seconds;
\*   max  = L2 requests every I2 seconds for { ip + route };
Rules == 1..NumRules

\* Rule.key: the inputs a rule's key is made of, by position in hit's
\* parameter list (ip, route).
KeyFields == [r \in Rules |-> <<1, 2>>]

\* The argument tuples (ip, route) hit is called with.
Inputs == {<<"a", "bc">>, <<"ab", "c">>}

\* Option<(u32, u64)>: None, or the bucket <<remaining, reset_at>>.
None == <<>>

\* ---- the key of a rule ------------------------------------------------------

\* Mutant: the string forms are put together with nothing in between.
RECURSIVE Join_NoSeparator(_)
Join_NoSeparator(s) ==
    IF s = <<>> THEN ""
    ELSE IF Len(s) = 1 THEN s[1]
    ELSE s[1] \o Join_NoSeparator(Tail(s))

\* format!(lit, inputs...) with lit = "{}" repeated and joined by "+";
\* "".to_string() for a rule without key fields.
RECURSIVE Join(_)
Join(s) ==
    IF s = <<>> THEN ""
    ELSE IF Len(s) = 1 THEN s[1]
    ELSE s[1] \o "+" \o Join(Tail(s))

\* let key = #key;
Key(r, in) == Join([i \in 1..Len(KeyFields[r]) |-> in[KeyFields[r][i]]])

Keys == {Key(r, in) : r \in Rules, in \in Inputs}

VARIABLES
    clock,          \* SystemTime::now() in seconds, as the next caller reads it
    clause,         \* rule -> the timeout clause as declared: <<t>>, or None
    limit,          \* rule -> Rule.limit
    interval,       \* rule -> Rule.interval
    timeout,        \* rule -> Rule.timeout
    map,            \* rule -> DefaultStore.map: key -> bucket or None
    locks,          \* rule -> DefaultStore.locks: key -> the guard's holders
    expiring,       \* rule -> DefaultStore.expiring: the heap, a bag of Expiry
    expiringLock,   \* rule -> the callers holding the Mutex around `expiring`
    pc,             \* where each caller is in hit
    input,          \* hit's arguments
    rl,             \* the rule whose block the caller is in
    now,            \* hit's local `now`
    key,            \* impl_rule's local `key`
    lock,           \* impl_rule's local `lock`, dereferenced: the snapshot
    name,           \* impl_rule's local bucket `#name`
    reset_updated,  \* impl_rule's local `reset_updated`
    hit,            \* hit's local `hit`: some rule denied
    pkey,           \* prune's local `key`: the key of the popped Expiry
    item,           \* prune's local `item`
    nhit,           \* how many times each caller has called hit
    spinning,       \* prune went round its loop on an empty heap
    tripped,        \* history: rule, key -> reset_at of its last trip, or -1
    seqFirst,       \* history: rule, key -> now of the first hit of its fresh
                    \* sequence
    seqN,           \* history: rule, key -> hits so far in its fresh sequence
    seq,            \* history: caller -> <<position, first now>> of its hit in
                    \* the key's fresh sequence, <<0, 0>> when it is in none
    branch,         \* history: caller -> rule -> the branch its block took in
                    \* this call of hit, "none" before the block
    last,           \* history: rule, key -> the value of the last set, None
                    \* after a remove or without any set
    popped          \* history: caller -> the Expiry its prune popped in this
                    \* iteration of the loop, None outside one

store == <<map, locks, expiring, expiringLock>>
rule == <<clause, limit, interval, timeout>>
locals == <<input, rl, now, key, lock, name, reset_updated, hit, pkey, item>>
history == <<spinning, tripped, seqFirst, seqN, seq, branch, last, popped>>
vars == <<clock, rule, store, pc, locals, nhit, history>>

\* ---- Rule::parse ---------------------------------------------------------

\* Mutant: without a timeout clause the timeout is 0.
ParseTimeout_Zero(cl, iv) == IF cl # None THEN cl[1] ELSE 0

\* let timeout = if timeout { expected_duration(&mut input)? } else { interval };
ParseTimeout(cl, iv) == IF cl # None THEN cl[1] ELSE iv

\* ---- Expiry and the heap -------------------------------------------------

\* struct Expiry(u64, String)
Expiry(expire_at, k) == <<expire_at, k>>

\* Mutant: the order of the expire_at as they are.
ExpiryLe_Natural(self, other) == self[1] <= other[1]

\* Expiry::le: the order is reversed, so that the max-heap BinaryHeap
\* has the soonest expiry on top.
ExpiryLe(self, other) == other[1] <= self[1]

\* BinaryHeap::peek / pop: a greatest element of the heap under Ord;
\* which one among equals is up to the heap.
Peek(heap) == {e \in BagToSet(heap) : \A f \in BagToSet(heap) : ExpiryLe(f, e)}

\* Mutant: the push puts the entry in the place of the heap's content.
Push_Replace(heap, e) == SetToBag({e})

\* BinaryHeap::push
Push(heap, e) == heap (+) SetToBag({e})

\* BinaryHeap::pop, e being the entry peek shows
Pop(heap, e) == heap (-) SetToBag({e})

\* ---- impl_rule: the token transition ---------------------------------------

\* (*lock).unwrap_or((limit, now + interval))
UnwrapOr(r, v, n) == IF v = None THEN <<limit[r], n + interval[r]>> ELSE v

\* Mutant: the bucket counts as expired in the second of its reset_at already.
Expired_AtReset(b, n) == b[2] <= n

\* if name.1 < now
Expired(b, n) == b[2] < n

\* if name.1 < now { name = (limit, now + interval); reset_updated = true; }
AfterReset(r, v, n) ==
    LET b == UnwrapOr(r, v, n)
    IN  IF Expired(b, n) THEN <<limit[r], n + interval[r]>> ELSE b

\* name = (0, now + timeout)
Tripped(r, n) == <<0, n + timeout[r]>>

\* Mutant: the trip keeps the reset_at of the running interval.
Transition_KeepReset(r, v, n) ==
    LET b == AfterReset(r, v, n)
        u == Expired(UnwrapOr(r, v, n), n)
    IN  IF b[1] > 1
        THEN [branch |-> "decrement", name |-> <<b[1] - 1, b[2]>>,
              reset_updated |-> u, hit |-> FALSE, set |-> TRUE]
        ELSE IF b[1] = 1
        THEN [branch |-> "trip", name |-> <<0, b[2]>>,
              reset_updated |-> TRUE, hit |-> TRUE, set |-> TRUE]
        ELSE [branch |-> "deny", name |-> b,
              reset_updated |-> u, hit |-> TRUE, set |-> FALSE]

\* Mutant: an empty bucket is decremented like any other.
Transition_DecrementAll(r, v, n) ==
    LET b == AfterReset(r, v, n)
        u == Expired(UnwrapOr(r, v, n), n)
    IN  IF b[1] > 1
        THEN [branch |-> "decrement", name |-> <<b[1] - 1, b[2]>>,
              reset_updated |-> u, hit |-> FALSE, set |-> TRUE]
        ELSE IF b[1] = 1
        THEN [branch |-> "trip", name |-> Tripped(r, n),
              reset_updated |-> TRUE, hit |-> TRUE, set |-> TRUE]
        ELSE [branch |-> "deny", name |-> <<b[1] - 1, b[2]>>,
              reset_updated |-> u, hit |-> TRUE, set |-> TRUE]

\* Mutant: a denied hit on an empty bucket starts the timeout again.
Transition_DenyWrites(r, v, n) ==
    LET b == AfterReset(r, v, n)
        u == Expired(UnwrapOr(r, v, n), n)
    IN  IF b[1] > 1
        THEN [branch |-> "decrement", name |-> <<b[1] - 1, b[2]>>,
              reset_updated |-> u, hit |-> FALSE, set |-> TRUE]
        ELSE IF b[1] = 1
        THEN [branch |-> "trip", name |-> Tripped(r, n),
              reset_updated |-> TRUE, hit |-> TRUE, set |-> TRUE]
        ELSE [branch |-> "deny", name |-> <<0, b[2] + 1>>,
              reset_updated |-> TRUE, hit |-> TRUE, set |-> TRUE]

\* The three branches on name.0: the bucket, reset_updated, whether the rule
\* denies, and whether set is called.
Transition(r, v, n) ==
    LET b == AfterReset(r, v, n)
        u == Expired(UnwrapOr(r, v, n), n)
    IN  IF b[1] > 1
        THEN [branch |-> "decrement", name |-> <<b[1] - 1, b[2]>>,
              reset_updated |-> u, hit |-> FALSE, set |-> TRUE]
        ELSE IF b[1] = 1
        THEN [branch |-> "trip", name |-> Tripped(r, n),
              reset_updated |-> TRUE, hit |-> TRUE, set |-> TRUE]
        ELSE [branch |-> "deny", name |-> b,
              reset_updated |-> u, hit |-> TRUE, set |-> FALSE]

\* Mutant: the rule's denial replaces what the rules before it said.
Or_Last(h, d) == d

\* hit = true, in the branches that deny; hit is left as it is in the other.
Or(h, d) == h \/ d

\* ---- DefaultStore ---------------------------------------------------------

\* Mutant: get takes the key's lock without waiting for it.
get_NoWait(c, r, k) == locks' = [locks EXCEPT ![r][k] = @ \cup {c}]

\* SyncStore::get: wait for the key's lock, take it; the caller then reads
\* map[k] as the guard's value.
get(c, r, k) ==
    /\ locks[r][k] = {}
    /\ locks' = [locks EXCEPT ![r][k] = @ \cup {c}]

\* Mutant: the guard outlives the drop.
drop_Keep(c, r, k) == locks

\* Dropping a StoreLock releases the key's lock.
drop(c, r, k) == [locks EXCEPT ![r][k] = @ \ {c}]

\* SyncStore::set, first half: map.insert(key, value)
insert(r, k, value) == [map EXCEPT ![r][k] = value]

\* Mutant: remove leaves the bucket in the map.
remove_Keep(r, k) == map

\* SyncStore::remove
remove(r, k) == [map EXCEPT ![r][k] = None]

\* Mutex::lock on `expiring`: wait until no one holds it.
MutexFree(r) == expiringLock[r] = {}

\* ---- history ---------------------------------------------------------------

\* A key's fresh sequence: it starts with a hit that finds the key absent and
\* goes on, for at most `limit` hits, with the hits whose now is before the
\* first hit's now + interval.
InSeq(r, k, n) ==
    /\ 0 < seqN[r][k]
    /\ seqN[r][k] < limit[r]
    /\ n < seqFirst[r][k] + interval[r]

SeqAfter(r, k, v, n) ==
    IF InSeq(r, k, n) THEN <<seqN[r][k] + 1, seqFirst[r][k]>>
    ELSE IF v = None THEN <<1, n>>
    ELSE <<0, 0>>

\* The reset_at of the key's last trip, forgotten once a hit's now has
\* reached it.
TrippedAfter(r, k, t, n) ==
    IF t.branch = "trip" THEN t.name[2]
    ELSE IF n >= tripped[r][k] THEN -1
    ELSE tripped[r][k]

\* ---- hit -----------------------------------------------------------------

\* hit: read the clock, enter the block of the first rule, build its key.
Hit(c) ==
    /\ pc[c] = "idle"
    /\ nhit[c] < MaxHits
    /\ nhit' = [nhit EXCEPT ![c] = @ + 1]
    /\ \E in \in Inputs :
        /\ input' = [input EXCEPT ![c] = in]
        /\ key' = [key EXCEPT ![c] = Key(1, in)]
    /\ rl' = [rl EXCEPT ![c] = 1]
    /\ now' = [now EXCEPT ![c] = clock]
    /\ hit' = [hit EXCEPT ![c] = FALSE]
    /\ branch' = [branch EXCEPT ![c] = [r \in Rules |-> "none"]]
    /\ pc' = [pc EXCEPT ![c] = "get"]
    /\ UNCHANGED <<clock, rule, store, lock, name, reset_updated, pkey, item,
                   spinning, tripped, seqFirst, seqN, seq, last, popped>>

\* let lock = self.rule.get(&key);
Get(c) ==
    /\ pc[c] = "get"
    /\ get(c, rl[c], key[c])
    /\ lock' = [lock EXCEPT ![c] = map[rl[c]][key[c]]]
    /\ pc' = [pc EXCEPT ![c] = "rule"]
    /\ UNCHANGED <<clock, rule, map, expiring, expiringLock, input, rl, now,
                   key, name, reset_updated, hit, pkey, item, nhit, history>>

\* The transition, and set's map.insert when set is called.  Without a push
\* to make, drop(lock) follows with no blocking point in between.
Rule(c) ==
    /\ pc[c] = "rule"
    /\ LET r == rl[c]
           k == key[c]
           t == Transition(r, lock[c], now[c])
           push == t.set /\ t.reset_updated
           s == SeqAfter(r, k, lock[c], now[c])
       IN  /\ name' = [name EXCEPT ![c] = t.name]
           /\ reset_updated' = [reset_updated EXCEPT ![c] = t.reset_updated]
           /\ hit' = [hit EXCEPT ![c] = Or(hit[c], t.hit)]
           /\ map' = IF t.set THEN insert(r, k, t.name) ELSE map
           /\ last' = IF t.set THEN [last EXCEPT ![r][k] = t.name] ELSE last
           /\ locks' = IF push THEN locks ELSE drop(c, r, k)
           /\ pc' = [pc EXCEPT ![c] = IF push THEN "set" ELSE "prune"]
           /\ tripped' = [tripped EXCEPT ![r][k] = TrippedAfter(r, k, t, now[c])]
           /\ seqN' = [seqN EXCEPT ![r][k] = s[1]]
           /\ seqFirst' = [seqFirst EXCEPT ![r][k] = s[2]]
           /\ seq' = [seq EXCEPT ![c] = s]
           /\ branch' = [branch EXCEPT ![c][r] = t.branch]
    /\ UNCHANGED <<clock, rule, expiring, expiringLock, input, rl, now, key,
                   lock, pkey, item, nhit, spinning, popped>>

\* SyncStore::set, second half: lock the heap, push Expiry(value.1 + 1, key),
\* unlock; then drop(lock).
Set(c) ==
    /\ pc[c] = "set"
    /\ MutexFree(rl[c])
    /\ expiring' = [expiring EXCEPT
                        ![rl[c]] = Push(@, Expiry(name[c][2] + 1, key[c]))]
    /\ locks' = drop(c, rl[c], key[c])
    /\ pc' = [pc EXCEPT ![c] = "prune"]
    /\ UNCHANGED <<clock, rule, map, expiringLock, locals, nhit, history>>

\* ---- prune ---------------------------------------------------------------

\* let mut expiring = self.expiring.lock().unwrap();
PruneLock(c) ==
    /\ pc[c] = "prune"
    /\ MutexFree(rl[c])
    /\ expiringLock' = [expiringLock EXCEPT ![rl[c]] = @ \cup {c}]
    /\ pc' = [pc EXCEPT ![c] = "peek"]
    /\ UNCHANGED <<clock, rule, map, locks, expiring, locals, nhit, history>>

\* if peek.0 < now { break; }
Stops(e, n) == e[1] < n

\* peek is Some and the loop breaks: prune returns and the rule's block
\* yields (name.0, name.1, public, key); the block's locals end.  The block
\* of the next rule follows; after the last one hit returns.
PruneBreak(c) ==
    /\ pc[c] = "peek"
    /\ \E e \in Peek(expiring[rl[c]]) : Stops(e, now[c])
    /\ expiringLock' = [expiringLock EXCEPT ![rl[c]] = @ \ {c}]
    /\ IF rl[c] < NumRules
       THEN /\ rl' = [rl EXCEPT ![c] = @ + 1]
            /\ key' = [key EXCEPT ![c] = Key(rl[c] + 1, input[c])]
            /\ pc' = [pc EXCEPT ![c] = "get"]
       ELSE /\ pc' = [pc EXCEPT ![c] = "idle"]
            /\ UNCHANGED <<rl, key>>
    /\ lock' = [lock EXCEPT ![c] = None]
    /\ name' = [name EXCEPT ![c] = None]
    /\ reset_updated' = [reset_updated EXCEPT ![c] = FALSE]
    /\ seq' = [seq EXCEPT ![c] = <<0, 0>>]
    /\ UNCHANGED <<clock, rule, map, locks, expiring, input, now, hit, pkey,
                   item, nhit, spinning, tripped, seqFirst, seqN, branch,
                   last, popped>>

\* peek is Some and the loop goes on: let key = &expiring.pop().unwrap().1;
PrunePop(c) ==
    /\ pc[c] = "peek"
    /\ \E e \in Peek(expiring[rl[c]]) :
        /\ ~Stops(e, now[c])
        /\ expiring' = [expiring EXCEPT ![rl[c]] = Pop(@, e)]
        /\ pkey' = [pkey EXCEPT ![c] = e[2]]
        /\ popped' = [popped EXCEPT ![c] = e]
    /\ pc' = [pc EXCEPT ![c] = "prune_get"]
    /\ UNCHANGED <<clock, rule, map, locks, expiringLock, input, rl, now, key,
                   lock, name, reset_updated, hit, item, nhit, spinning,
                   tripped, seqFirst, seqN, seq, branch, last>>

\* peek is None: the loop body does nothing and the loop goes round again,
\* the Mutex still held.
PruneSpin(c) ==
    /\ pc[c] = "peek"
    /\ expiring[rl[c]] = EmptyBag
    /\ spinning' = [spinning EXCEPT ![c] = TRUE]
    /\ UNCHANGED <<clock, rule, store, pc, locals, nhit, tripped, seqFirst,
                   seqN, seq, branch, last, popped>>

\* let lock = self.get(key); let item = *lock;
PruneGet(c) ==
    /\ pc[c] = "prune_get"
    /\ get(c, rl[c], pkey[c])
    /\ item' = [item EXCEPT ![c] = map[rl[c]][pkey[c]]]
    /\ pc' = [pc EXCEPT ![c] = "prune_item"]
    /\ UNCHANGED <<clock, rule, map, expiring, expiringLock, input, rl, now,
                   key, lock, name, reset_updated, hit, pkey, nhit, history>>

\* if let Some(item) = item { if item.1 < now { continue; } self.remove(key); }
Removes(v, n) == v # None /\ ~(v[2] < n)

\* The rest of the iteration; the guard `lock` is dropped at its end.
PruneItem(c) ==
    /\ pc[c] = "prune_item"
    /\ LET rm == Removes(item[c], now[c])
       IN  /\ map' = IF rm THEN remove(rl[c], pkey[c]) ELSE map
           /\ last' = IF rm THEN [last EXCEPT ![rl[c]][pkey[c]] = None]
                      ELSE last
    /\ locks' = drop(c, rl[c], pkey[c])
    /\ item' = [item EXCEPT ![c] = None]
    /\ popped' = [popped EXCEPT ![c] = None]
    /\ pc' = [pc EXCEPT ![c] = "peek"]
    /\ UNCHANGED <<clock, rule, expiring, expiringLock, input, rl, now, key,
                   lock, name, reset_updated, hit, pkey, nhit, spinning,
                   tripped, seqFirst, seqN, seq, branch>>

\* ---- the clock -----------------------------------------------------------

Tick ==
    /\ clock < MaxNow
    /\ clock' = clock + 1
    /\ UNCHANGED <<rule, store, pc, locals, nhit, history>>

\* ---- the specification ---------------------------------------------------

\* Option<u32>: the timeout clauses a rule can be declared with, None for a
\* rule without one.
TimeoutClauses == {None} \cup {<<t>> : t \in 0..MaxTimeout}

\* The first rule is declared with or without a timeout clause, the others
\* without.
Clauses(r) == IF r = 1 THEN TimeoutClauses ELSE {None}

\* RateLimiter::new(): an empty store for every rule; no caller has started.
Init ==
    /\ clock = 0
    /\ clause \in {f \in [Rules -> TimeoutClauses] :
                        \A r \in Rules : f[r] \in Clauses(r)}
    /\ limit \in [Rules -> 1..MaxLimit]
    /\ interval \in [Rules -> 1..MaxInterval]
    /\ timeout = [r \in Rules |-> ParseTimeout(clause[r], interval[r])]
    /\ map = [r \in Rules |-> [k \in Keys |-> None]]
    /\ locks = [r \in Rules |-> [k \in Keys |-> {}]]
    /\ expiring = [r \in Rules |-> EmptyBag]
    /\ expiringLock = [r \in Rules |-> {}]
    /\ pc = [c \in Callers |-> "idle"]
    /\ input = [c \in Callers |-> None]
    /\ rl = [c \in Callers |-> 1]
    /\ now = [c \in Callers |-> 0]
    /\ key = [c \in Callers |-> ""]
    /\ lock = [c \in Callers |-> None]
    /\ name = [c \in Callers |-> None]
    /\ reset_updated = [c \in Callers |-> FALSE]
    /\ hit = [c \in Callers |-> FALSE]
    /\ pkey = [c \in Callers |-> ""]
    /\ item = [c \in Callers |-> None]
    /\ nhit = [c \in Callers |-> 0]
    /\ spinning = [c \in Callers |-> FALSE]
    /\ tripped = [r \in Rules |-> [k \in Keys |-> -1]]
    /\ seqFirst = [r \in Rules |-> [k \in Keys |-> 0]]
    /\ seqN = [r \in Rules |-> [k \in Keys |-> 0]]
    /\ seq = [c \in Callers |-> <<0, 0>>]
    /\ branch = [c \in Callers |-> [r \in Rules |-> "none"]]
    /\ last = [r \in Rules |-> [k \in Keys |-> None]]
    /\ popped = [c \in Callers |-> None]

Next ==
    \/ Tick
    \/ \E c \in Callers : Hit(c)
    \/ \E c \in Callers : Get(c)
    \/ \E c \in Callers : Rule(c)
    \/ \E c \in Callers : Set(c)
    \/ \E c \in Callers : PruneLock(c)
    \/ \E c \in Callers : PruneBreak(c)
    \/ \E c \in Callers : PrunePop(c)
    \/ \E c \in Callers : PruneSpin(c)
    \/ \E c \in Callers : PruneGet(c)
    \/ \E c \in Callers : PruneItem(c)

Spec == Init /\ [][Next]_vars

\* ---- claims ----------------------------------------------------------------

\* The caller has applied the transition of the rule it is in: name, hit and
\* reset_updated are what the rule's block hands back.
Evaluated(c) == pc[c] \in {"set", "prune", "peek", "prune_get", "prune_item"}

\* C1: on a key absent from the store, the k-th successive hit before the
\* first hit's now + interval returns remaining = limit - k and
\* reset_at = first now + interval and is not denied, for k < limit; the
\* limit-th returns remaining = 0 and is denied.  A hit whose prune goes round
\* on the empty heap returns nothing.
C1_FreshSequence ==
    \A c \in Callers :
        (Evaluated(c) /\ seq[c][1] > 0) =>
            LET r == rl[c]
            IN  /\ seq[c][1] < limit[r] =>
                    /\ branch[c][r] = "decrement"
                    /\ name[c] = <<limit[r] - seq[c][1], seq[c][2] + interval[r]>>
                /\ seq[c][1] = limit[r] =>
                    (branch[c][r] # "decrement" /\ name[c][1] = 0)
                /\ ~spinning[c]

\* C2: once a hit at time t has tripped a key, writing (0, t + timeout), every
\* later hit on the key at t <= now < t + timeout is denied and returns
\* (0, t + timeout), whatever prune did in between.
C2_TrippedStaysDenied ==
    [][\A c \in Callers :
        LET t == tripped[rl[c]][key[c]]
        IN  (/\ pc[c] = "rule"
             /\ pc'[c] # "rule"
             /\ t >= 0
             /\ t - timeout[rl[c]] <= now[c]
             /\ now[c] < t) =>
                (hit'[c] /\ name'[c] = <<0, t>>)]_vars

\* C3: prune(now) never removes a bucket whose reset_at >= now.
C3_PruneKeepsLive ==
    [][\A r \in Rules : \A k \in Keys :
        (map[r][k] # None /\ map'[r][k] = None) =>
            \E c \in Callers :
                /\ pc[c] = "prune_item"
                /\ rl[c] = r
                /\ pkey[c] = k
                /\ map[r][k][2] < now[c]]_vars

\* C4: prune terminates; on an empty index it returns at once, changing
\* nothing: it never goes round its loop again.
C4_PruneTerminates == \A c \in Callers : ~spinning[c]

\* The callers that hold what c is waiting for.
WaitsFor(c) ==
    IF pc[c] = "get" THEN locks[rl[c]][key[c]] \ {c}
    ELSE IF pc[c] = "prune_get" THEN locks[rl[c]][pkey[c]] \ {c}
    ELSE IF pc[c] \in {"set", "prune"} THEN expiringLock[rl[c]] \ {c}
    ELSE {}

Deadlock(S) == S # {} /\ \A c \in S : WaitsFor(c) \cap S # {}

\* C5: no set of callers each waits for a lock (a key's lock, or the Mutex of
\* the expiry index) held by another caller of the set.
C5_NoDeadlock == \A S \in SUBSET Callers : ~Deadlock(S)

Min(a, b) == IF a < b THEN a ELSE b

Max(a, b) == IF a > b THEN a ELSE b

\* C6: when all N callers hit the same absent key with the same now, exactly
\* min(N, limit - 1) hits are not denied, their remaining are pairwise
\* distinct, and the bucket stored in the end has remaining =
\* max(limit - N, 0).
C6_NoLostUpdate ==
    (\A c \in Callers :
        /\ Evaluated(c)
        /\ rl[c] = 1
        /\ nhit[c] = 1
        /\ key[c] = key[1]
        /\ now[c] = now[1]) =>
            LET allowed == {c \in Callers : ~hit[c]}
            IN  /\ Cardinality(allowed) = Min(NumCallers, limit[1] - 1)
                /\ \A c, d \in allowed : c # d => name[c][1] # name[d][1]
                /\ map[1][key[1]] # None
                /\ map[1][key[1]][1] = Max(limit[1] - NumCallers, 0)

\* C7: at most one caller holds a key's lock, and a key's bucket is written or
\* removed only by a step of the caller that holds the key's lock.
C7_WritesUnderLock ==
    /\ [](\A r \in Rules : \A k \in Keys : Cardinality(locks[r][k]) <= 1)
    /\ [][\A r \in Rules : \A k \in Keys :
            map'[r][k] # map[r][k] =>
                \E c \in locks[r][k] :
                    /\ pc'[c] # pc[c]
                    /\ rl[c] = r
                    /\ \/ pc[c] = "rule" /\ key[c] = k
                       \/ pc[c] = "prune_item" /\ pkey[c] = k]_vars

\* A caller has written a key's bucket under the key's lock and still holds
\* it, while another caller waits in get for the same key.
C7_Witness ==
    \E r \in Rules : \E k \in Keys : \E c, d \in Callers :
        /\ c # d
        /\ locks[r][k] = {c}
        /\ pc[c] = "set"
        /\ rl[c] = r
        /\ key[c] = k
        /\ map[r][k] = name[c]
        /\ rl[d] = r
        /\ \/ pc[d] = "get" /\ key[d] = k
           \/ pc[d] = "prune_get" /\ pkey[d] = k

\* C8: a caller running hit for key A is never made to wait, through the
\* Mutex of the expiry index held by a prune, because some caller holds the
\* lock of another key B.
C8_OtherKeysNeverBlock ==
    \A c \in Callers :
        (pc[c] \in {"set", "prune"} /\ expiringLock[rl[c]] \ {c} # {}) =>
            \A p \in expiringLock[rl[c]] \ {c} :
                ~(/\ pc[p] = "prune_get"
                  /\ pkey[p] # key[c]
                  /\ locks[rl[p]][pkey[p]] \ {p, c} # {})

\* The hit of caller c found a tripped bucket (remaining = 0).
FoundTripped(c) == Evaluated(c) /\ lock[c] # None /\ lock[c][1] = 0

\* C9, as claimed: a hit on a tripped bucket at now >= reset_at resets it to
\* (limit, now + interval) first, so with limit > 1 it is not denied and
\* returns (limit - 1, now + interval).
C9_ResetAtOrAfter ==
    \A c \in Callers :
        (FoundTripped(c) /\ now[c] >= lock[c][2] /\ limit[rl[c]] > 1) =>
            /\ branch[c][rl[c]] = "decrement"
            /\ name[c] = <<limit[rl[c]] - 1, now[c] + interval[rl[c]]>>

\* C9, amended: the reset is applied only at now > reset_at; at
\* now = reset_at the bucket is still in timeout, the hit is denied and
\* returns the bucket as it is.
C9_ResetAfter ==
    \A c \in Callers :
        /\ (FoundTripped(c) /\ now[c] > lock[c][2] /\ limit[rl[c]] > 1) =>
                /\ branch[c][rl[c]] = "decrement"
                /\ name[c] = <<limit[rl[c]] - 1, now[c] + interval[rl[c]]>>
        /\ (FoundTripped(c) /\ now[c] = lock[c][2]) =>
                (hit[c] /\ name[c] = lock[c])

\* A hit has found a tripped bucket after its reset_at, with limit > 1, and
\* was not denied.
C9_Witness ==
    \E c \in Callers :
        /\ FoundTripped(c)
        /\ now[c] > lock[c][2]
        /\ limit[rl[c]] > 1
        /\ ~hit[c]

\* The hit of caller c finds remaining = 1 after the optional reset.
FoundOne(c) ==
    /\ Evaluated(c)
    /\ \/ (lock[c] = None \/ lock[c][2] < now[c]) /\ limit[rl[c]] = 1
       \/ lock[c] # None /\ ~(lock[c][2] < now[c]) /\ lock[c][1] = 1

StepOf(c) == pc'[c] # pc[c] \/ spinning'[c] # spinning[c]

\* C11: the block of rule R for key A changes no bucket but the one of key A
\* in R's store: every other key of R, and every key of every other rule's
\* store, has the same bucket after each of its steps.  (The removal, by the
\* block's prune, of a bucket with reset_at < now is left aside: a hit finds
\* (limit, now + interval) whether such a bucket is there or not.)
C11_OtherBucketsUnchanged ==
    [][\A c \in Callers : \A r \in Rules : \A k \in Keys :
        (StepOf(c) /\ pc[c] # "idle" /\ <<r, k>> # <<rl[c], key[c]>>) =>
            \/ map'[r][k] = map[r][k]
            \/ /\ map[r][k] # None
               /\ map[r][k][2] < now[c]
               /\ map'[r][k] = None]_vars

\* The last rule's block of caller c's hit has applied its transition: hit is
\* the boolean the call returns.
AllEvaluated(c) ==
    \/ rl[c] = NumRules /\ Evaluated(c)
    \/ pc[c] = "idle" /\ nhit[c] > 0

\* C12: the boolean of hit is true iff some rule's block denied (took the
\* trip or the deny branch), and false exactly when every rule took the
\* remaining > 1 branch.
C12_DeniedIffSomeRuleDenied ==
    \A c \in Callers :
        AllEvaluated(c) =>
            /\ hit[c] <=> \E r \in Rules : branch[c][r] \in {"trip", "deny"}
            /\ ~hit[c] <=> \A r \in Rules : branch[c][r] = "decrement"

\* A call whose first rule denied and whose last rule did not.
C12_Witness ==
    \E c \in Callers :
        /\ AllEvaluated(c)
        /\ branch[c][1] \in {"trip", "deny"}
        /\ branch[c][NumRules] = "decrement"
        /\ hit[c]

\* The caller's hit has built the key of the rule it is in.
HasKey(c) == pc[c] # "idle"

C14_RoundTrip ==
    \A c \in Callers :
        /\ pc[c] = "rule" =>
                (lock[c] = last[rl[c]][key[c]] /\ lock[c] = map[rl[c]][key[c]])
        /\ pc[c] = "set" =>
                (name[c] = last[rl[c]][key[c]] /\ name[c] = map[rl[c]][key[c]])
        /\ pc[c] = "prune_item" =>
                (item[c] = last[rl[c]][pkey[c]] /\ item[c] = map[rl[c]][pkey[c]])

\* A guard holds None for a key that was set by a trip and then removed.
C14_Witness ==
    \E c \in Callers :
        /\ pc[c] = "rule"
        /\ lock[c] = None
        /\ tripped[rl[c]][key[c]] >= 0

C16_ResetWhenIntervalIsUp ==
    \A c \in Callers :
        (/\ Evaluated(c)
         /\ clause[rl[c]] = None
         /\ branch[c][rl[c]] = "trip"
         /\ lock[c] # None
         /\ ~Expired(lock[c], now[c])) =>
            name[c][2] = lock[c][2]

\* remaining is in 0..limit.
InRange(r, b) == b # None => (0 <= b[1] /\ b[1] <= limit[r])

\* C17: the remaining of every stored bucket, and of every bucket a rule's
\* block hands back, is in 0..limit: an empty bucket is never decremented.
C17_RemainingInRange ==
    /\ \A r \in Rules : \A k \in Keys : InRange(r, map[r][k])
    /\ \A c \in Callers : InRange(rl[c], name[c])

\* A hit has found an empty bucket still in its timeout and handed it back
\* with remaining = 0.
C17_Witness ==
    \E c \in Callers :
        /\ Evaluated(c)
        /\ lock[c] # None
        /\ lock[c][1] = 0
        /\ branch[c][rl[c]] = "deny"
        /\ name[c][1] = 0

\* The step is the return of caller c's prune.
PruneReturns(c) == pc[c] = "peek" /\ pc'[c] \in {"get", "idle"}

\* C18: when prune(now) returns, no index entry with expire_at < now is left,
\* and every key that had such an entry and whose reset_at < now is absent
\* from the map.
C18_PruneEvictsExpired ==
    [][\A c \in Callers :
        PruneReturns(c) =>
            \A e \in BagToSet(expiring[rl[c]]) :
                /\ ~(e[1] < now[c])
                /\ LET b == map[rl[c]][e[2]]
                   IN  ~(b # None /\ b[2] < now[c])]_vars

\* C19: prune(now) never pops an entry with expire_at >= now.
C19_PruneStopsAtLive ==
    [][\A c \in Callers :
        (pc[c] = "peek" /\ pc'[c] = "prune_get") =>
            \E e \in BagToSet(expiring[rl[c]]) :
                /\ expiring'[rl[c]] = Pop(expiring[rl[c]], e)
                /\ e[1] < now[c]]_vars

\* The step applies the transition for caller c, who found remaining = 0 and
\* a reset_at not yet passed.
DeniedStep(c) ==
    /\ pc[c] = "rule"
    /\ pc'[c] # "rule"
    /\ lock[c] # None
    /\ lock[c][1] = 0
    /\ ~(lock[c][2] < now[c])

\* C20: a hit on a bucket with remaining = 0 and reset_at not yet passed
\* writes nothing: the step leaves the map and the expiry index as they are,
\* goes on to prune without a set, and the rule denies.
C20_DeniedHitWritesNothing ==
    [][\A c \in Callers :
        DeniedStep(c) =>
            /\ map' = map
            /\ expiring' = expiring
            /\ pc'[c] = "prune"
            /\ hit'[c]
            /\ name'[c] = lock[c]]_vars

\* A hit was denied on an empty bucket still in its timeout, and the bucket
\* is in the map as the hit found it.
C20_Witness ==
    \E c \in Callers :
        /\ pc[c] = "prune"
        /\ branch[c][rl[c]] = "deny"
        /\ lock[c] # None
        /\ lock[c][1] = 0
        /\ map[rl[c]][key[c]] = lock[c]

\* The step is set's map.insert for caller c (the transition called set).
InsertStep(c) ==
    /\ pc[c] = "rule"
    /\ pc'[c] # "rule"
    /\ branch'[c][rl[c]] # "deny"

\* The step is the rest of set for caller c: the push under the Mutex.
PushStep(c) == pc[c] = "set" /\ pc'[c] = "prune"

\* C21: set(key, (r, t), reset_updated) puts (r, t) in the map for key; with
\* reset_updated it adds exactly one entry (t + 1, key) to the expiry index,
\* every entry already there staying as it is, and without it the index is
\* left unchanged.
C21_SetPushesOneEntry ==
    [][\A c \in Callers :
        LET r == rl[c]
            k == key[c]
        IN  /\ InsertStep(c) =>
                /\ map'[r][k] = name'[c]
                /\ \A q \in Rules : \A j \in Keys :
                        <<q, j>> # <<r, k>> => map'[q][j] = map[q][j]
                /\ expiring' = expiring
                /\ pc'[c] = "set" <=> reset_updated'[c]
            /\ PushStep(c) =>
                /\ map' = map
                /\ expiring'[r] =
                        expiring[r] (+) SetToBag({<<name[c][2] + 1, k>>})
                /\ \A q \in Rules : q # r => expiring'[q] = expiring[q]]_vars

\* A set has pushed its entry onto an index that held another entry, and both
\* are there.
C21_Witness ==
    \E c \in Callers :
        /\ pc[c] = "prune"
        /\ reset_updated[c]
        /\ BagIn(<<name[c][2] + 1, key[c]>>, expiring[rl[c]])
        /\ BagCardinality(expiring[rl[c]]) >= 2

\* C22: the expiry index is a min-heap on expire_at: the entry prune pops is
\* one of the index, no entry of the index has a smaller expire_at, and only
\* that entry leaves the index.
C22_PopsTheSoonest ==
    [][\A c \in Callers :
        (pc[c] = "peek" /\ pc'[c] = "prune_get") =>
            LET heap == expiring[rl[c]]
                e == popped'[c]
            IN  /\ BagIn(e, heap)
                /\ \A f \in BagToSet(heap) : e[1] <= f[1]
                /\ pkey'[c] = e[2]
                /\ expiring'[rl[c]] (+) SetToBag({e}) = heap]_vars

\* A prune has popped an entry and left one with a later expire_at in the
\* index.
C22_Witness ==
    \E c \in Callers :
        /\ pc[c] = "prune_get"
        /\ \E f \in BagToSet(expiring[rl[c]]) : f[1] > popped[c][1]

\* The key locks caller c holds, each with its store.
Held(c) == {rk \in Rules \X Keys : c \in locks[rk[1]][rk[2]]}

\* C23: a caller never holds two key locks at once: the lock of a rule's key
\* is released before prune takes any lock and before the next rule's block,
\* and prune holds at most the lock of the key it has popped.
C23_OneKeyLockAtATime ==
    \A c \in Callers :
        /\ Cardinality(Held(c)) <= 1
        /\ pc[c] \in {"idle", "get", "prune", "peek", "prune_get"} =>
                Held(c) = {}
        /\ pc[c] \in {"rule", "set"} => Held(c) = {<<rl[c], key[c]>>}
        /\ pc[c] = "prune_item" => Held(c) = {<<rl[c], pkey[c]>>}

\* A prune holds the lock of a key that is not the key of the block it ends,
\* whose lock the caller has released.
C23_Witness ==
    \E c \in Callers :
        /\ pc[c] = "prune_item"
        /\ pkey[c] # key[c]
        /\ Held(c) = {<<rl[c], pkey[c]>>}

\* A caller is between the map.insert and the push of a set on key k of rule
\* r, or between the pop of an entry of k and the end of that iteration of
\* prune's loop.
InFlight(r, k) ==
    \E c \in Callers :
        /\ rl[c] = r
        /\ \/ pc[c] = "set" /\ key[c] = k
           \/ pc[c] \in {"prune_get", "prune_item"} /\ pkey[c] = k

\* C24: every bucket in a rule's map has an entry (reset_at + 1, key) in the
\* expiry index of that store, so that a later prune can find it.  (Buckets
\* with a set or a prune iteration under way are left aside.)
C24_EveryBucketIndexed ==
    \A r \in Rules : \A k \in Keys :
        (map[r][k] # None /\ ~InFlight(r, k)) =>
            BagIn(<<map[r][k][2] + 1, k>>, expiring[r])

\* C25: hit runs the block of every rule, in declared order, also after a
\* rule has denied: the rules before the one a call is in have all been
\* evaluated, and a call that a rule has denied is not held for ever in that
\* rule's block with rules still to come.
C25_EveryRuleEvaluated ==
    \A c \in Callers :
        /\ pc[c] # "idle" =>
                \A r \in Rules : r < rl[c] => branch[c][r] # "none"
        /\ (pc[c] = "idle" /\ nhit[c] > 0) =>
                \A r \in Rules : branch[c][r] # "none"
        /\ (rl[c] < NumRules /\ branch[c][rl[c]] \in {"trip", "deny"}) =>
                ~spinning[c]

====
